---- MODULE Spec2Model ----
(***************************************************************************)
(* Model of the audiobook watcher (src/main.py) and of the retry loops of  *)
(* the Telegram uploader (src/telegram_uploader.py).                       *)
(*                                                                         *)
(* The watcher: watchdog's observer thread takes filesystem events from    *)
(* its queue one at a time and calls AudiobookHandler.on_created, which    *)
(* blocks in time.sleep(10) and in loop.run_until_complete(...) until the  *)
(* file is processed.  The handler is therefore one sequential process     *)
(* (pc) whose suspension points are the places where the filesystem and    *)
(* the event queue can change under it.                                    *)
(*                                                                         *)
(* A path is the sequence of its name parts, <<"a", ".m4b", ".ready">> for *)
(* a.m4b.ready.  File sizes are counted in KiB (the model checker's        *)
(* integers are 32 bits wide, 4 GiB in bytes is not).                      *)
(*                                                                         *)
(* The uploader: RetryLoopSpec runs one session of any of the six retry    *)
(* loops; UploadAudioSpec runs upload_audio chunk by chunk on a file given *)
(* as its bytes.  ChunkedUploader is not part of the sources; its digests  *)
(* are modelled as collision-free.                                         *)
(***************************************************************************)
EXTENDS Integers, Sequences, FiniteSets, TLC

\* src/main.py:17, in KiB
MAX_FILE_SIZE == 4 * 1024 * 1024

\* bounds of the model
MaxExt == 3
MaxRetries == 9
MaxFloods == 2
MaxFileLen == 3
MaxChunkSize == 3
MaxAudioRetries == 2
MaxTicks == 5
MaxTotal == 4

A_M4B == <<"a", ".m4b">>
NOTES_TXT == <<"notes", ".txt">>
PROCESSED_DIR == <<"processed">>

MediaPaths == {A_M4B}
FileSizes == {1000, 1500, MAX_FILE_SIZE, MAX_FILE_SIZE + 1}

VARIABLES
  fs,              \* the files of the watched directory (paths)
  size,            \* size of each media file
  processedDir,    \* the directory 'processed' exists
  archived,        \* the files inside 'processed'
  queue,           \* the observer's event queue
  processing,      \* AudiobookHandler.processing (the ledger)
  is_shutting_down,
  pc,              \* where the observer thread is in on_created / async_process_file
  event,           \* the event on_created was called with
  target,          \* event.src_path of async_process_file
  initial_size,    \* os.path.getsize before the settle wait
  ops,             \* what the current (or last) processing attempt did, in order
  sessions,        \* per media path: upload sessions started (Bot created, send_document called)
  uploads,         \* per media path: send_document calls that succeeded
  sent_size,       \* size of the file at the last send_document call
  dropped,         \* media paths the environment has created so far
  ext,             \* environment steps taken so far
  proc             \* the process: running | joining (observer.join) | exited

VARIABLES
  loop,            \* which retry loop of telegram_uploader.py runs
  max_retries,     \* self.max_retries, or the parameter max_retries
  retry_count,     \* retry_count, state['retries']
  wait_time,       \* wait_time of the last handler that slept
  upc,             \* attempt | sleeping | done | failed | exhausted
  slept,           \* the sleeps of the session so far, in order
  floods           \* rate-limit answers so far

VARIABLES
  file,            \* the bytes of the file upload_audio sends
  chunk_size,      \* upload_audio's parameter chunk_size
  chunk_hashes,    \* state.chunk_hashes, one digest per chunk
  current_chunk,   \* state.current_chunk, the cursor
  uploaded_size,   \* state.uploaded_size
  position,        \* read position of the open file, Closed when none is open
  acked,           \* what upload_chunk has acknowledged so far, in order
  error,           \* the exception that ended the session, "none" if none did
  exists,          \* file_path.exists()
  again,           \* upload_audio was called once more for the same file
  notices          \* the status messages about waits, retries and the outcome
                   \* that the session tried to send, in order

VARIABLES
  reporter,        \* which progress path the transfer calls
  now,             \* time.time(), in half seconds
  last_progress_update,  \* state['last_progress_update'], in half seconds
  current,         \* bytes reported so far
  total,           \* bytes of the file
  emitted          \* the progress emissions so far, in order

pvars == <<reporter, now, last_progress_update, current, total, emitted>>

VARIABLES
  retry,           \* send_message's parameter retry
  returned,        \* what send_message returned, "none" while it runs
  sends            \* how the calls of bot.send_message ended, in order

mvars == <<retry, returned, sends>>

cvars == <<file, chunk_size, chunk_hashes, current_chunk, uploaded_size, acked, exists,
           again>>

uvars == <<loop, max_retries, retry_count, wait_time, upc, slept, floods, cvars, position,
           error, notices, pvars, mvars>>

wvars == <<fs, size, processedDir, archived, queue, processing, is_shutting_down,
           pc, event, target, initial_size, ops, sessions, uploads, sent_size,
           dropped, ext, proc>>

vars == <<wvars, uvars>>

NoEvent ==
  [type |-> "none", src_path |-> <<>>, is_directory |-> FALSE, busy |-> FALSE,
   late |-> FALSE, own |-> FALSE]

\* str.lower() on one name part
Lower(part) ==
  CASE part = ".M4B" -> ".m4b"
    [] part = ".READY" -> ".ready"
    [] OTHER -> part

\* path.lower().endswith(suffix)
LowerEndsWith(path, suffix) == Len(path) > 0 /\ Lower(path[Len(path)]) = suffix

\* path + '.ready'
ReadyMarker(path) == path \o <<".ready">>

StripSuffix_Kept(path) == path

\* src_path[:-6]
StripSuffix(path) == SubSeq(path, 1, Len(path) - 1)

\* the media path an event is about (the marker's media file for a marker event)
Subject(path) == IF LowerEndsWith(path, ".ready") THEN StripSuffix(path) ELSE path

\* a filesystem event as the emitter thread queues it; busy records whether the
\* path's media file was in the ledger when the event arrived, late whether
\* a shutdown signal had been received before, own whether the watcher's own
\* write to the directory produced it
Created(path, dir) ==
  [type |-> "created", src_path |-> path, is_directory |-> dir,
   busy |-> Subject(path) \in processing, late |-> proc # "running", own |-> FALSE]

\* the created event of a file or directory the watcher made itself: the
\* marker (lines 239-241), the processed directory (line 178)
OwnCreated(path, dir) == [Created(path, dir) EXCEPT !.own = TRUE]

is_file_ready_Unchecked(dir, file_path) == TRUE

\* os.path.exists(file_path + '.ready'), dir the directory's files at the call
is_file_ready(dir, file_path) == ReadyMarker(file_path) \in dir

SizeExceeded_OffByOne(file_size) == file_size >= MAX_FILE_SIZE

SizeExceeded(file_size) == file_size > MAX_FILE_SIZE

\* on_created, line 232: the two samples of the size agree
SizeStable_Ignored(initial, final) == TRUE

SizeStable(initial, final) == initial = final

\* async_process_file, lines 200-201
Release_Kept(path) == processing

Release(path) == processing \ {path}

WatcherInit ==
  /\ fs = {}
  /\ size = [p \in MediaPaths |-> 0]
  /\ processedDir = FALSE
  /\ archived = {}
  /\ queue = <<>>
  /\ processing = {}
  /\ is_shutting_down = FALSE
  /\ pc = "idle"
  /\ event = NoEvent
  /\ target = <<>>
  /\ initial_size = 0
  /\ ops = <<>>
  /\ sessions = [p \in MediaPaths |-> 0]
  /\ uploads = [p \in MediaPaths |-> 0]
  /\ sent_size = 0
  /\ dropped = {}
  /\ ext = 0
  /\ proc = "running"

-----------------------------------------------------------------------------
(* The environment: whatever else writes into the watched directory.  The  *)
(* emitter thread queues one event per change.                             *)

Event(kind, path) ==
  [type |-> kind, src_path |-> path, is_directory |-> FALSE,
   busy |-> Subject(path) \in processing, late |-> proc # "running", own |-> FALSE]

handlerVars == <<processing, is_shutting_down, pc, event, target, initial_size,
                 ops, sessions, uploads, sent_size>>

\* a new audiobook appears in the watched directory
Drop(p, s) ==
  /\ ext < MaxExt
  /\ UNCHANGED uvars
  /\ proc # "exited"
  /\ UNCHANGED proc
  /\ p \in MediaPaths \ dropped
  /\ fs' = fs \cup {p}
  /\ size' = [size EXCEPT ![p] = s]
  /\ dropped' = dropped \cup {p}
  /\ queue' = Append(queue, Created(p, FALSE))
  /\ ext' = ext + 1
  /\ UNCHANGED <<processedDir, archived, handlerVars>>

\* the event source reports the creation of an existing audiobook again
Redeliver(p) ==
  /\ ext < MaxExt
  /\ UNCHANGED uvars
  /\ proc # "exited"
  /\ UNCHANGED proc
  /\ p \in MediaPaths \cap fs
  /\ queue' = Append(queue, Created(p, FALSE))
  /\ ext' = ext + 1
  /\ UNCHANGED <<fs, size, dropped, processedDir, archived, handlerVars>>

\* somebody else creates the marker of an audiobook
Touch(p) ==
  /\ ext < MaxExt
  /\ UNCHANGED uvars
  /\ proc # "exited"
  /\ UNCHANGED proc
  /\ p \in MediaPaths
  /\ ReadyMarker(p) \notin fs
  /\ fs' = fs \cup {ReadyMarker(p)}
  /\ queue' = Append(queue, Created(ReadyMarker(p), FALSE))
  /\ ext' = ext + 1
  /\ UNCHANGED <<size, dropped, processedDir, archived, handlerVars>>

\* the writer of an audiobook writes more of it
Write(p, s) ==
  /\ ext < MaxExt
  /\ UNCHANGED uvars
  /\ proc # "exited"
  /\ UNCHANGED proc
  /\ p \in MediaPaths \cap fs
  /\ s > size[p]
  /\ size' = [size EXCEPT ![p] = s]
  /\ queue' = Append(queue, Event("modified", p))
  /\ ext' = ext + 1
  /\ UNCHANGED <<fs, dropped, processedDir, archived, handlerVars>>

\* a file of the watched directory is deleted
Delete(x) ==
  /\ ext < MaxExt
  /\ UNCHANGED uvars
  /\ proc # "exited"
  /\ UNCHANGED proc
  /\ x \in fs
  /\ fs' = fs \ {x}
  /\ queue' = Append(queue, Event("deleted", x))
  /\ ext' = ext + 1
  /\ UNCHANGED <<size, dropped, processedDir, archived, handlerVars>>

\* a file that is no audiobook appears
DropOther ==
  /\ ext < MaxExt
  /\ UNCHANGED uvars
  /\ proc # "exited"
  /\ UNCHANGED proc
  /\ NOTES_TXT \notin fs
  /\ fs' = fs \cup {NOTES_TXT}
  /\ queue' = Append(queue, Created(NOTES_TXT, FALSE))
  /\ ext' = ext + 1
  /\ UNCHANGED <<size, dropped, processedDir, archived, handlerVars>>

-----------------------------------------------------------------------------
(* AudiobookHandler, run by the observer thread.                           *)

\* on_created returns without having done anything
Return ==
  /\ pc' = "idle"
  /\ event' = NoEvent
  /\ UNCHANGED <<fs, size, processedDir, archived, processing, target,
                 initial_size, ops, sessions, uploads, sent_size>>

Enter_InsertsLater(ev, path) ==
  IF path \in processing
  THEN /\ pc' = "idle"
       /\ event' = NoEvent
       /\ UNCHANGED <<processing, target, ops>>
  ELSE /\ UNCHANGED processing
       /\ event' = ev
       /\ target' = path
       /\ ops' = <<"add">>
       /\ pc' = "sleep2"

\* async_process_file, lines 150-157: the ledger check, the insertion, and
\* the first await (asyncio.sleep(2))
Enter(ev, path) ==
  IF path \in processing
  THEN /\ pc' = "idle"
       /\ event' = NoEvent
       /\ UNCHANGED <<processing, target, ops>>
  ELSE /\ processing' = processing \cup {path}
       /\ event' = ev
       /\ target' = path
       /\ ops' = <<"add">>
       /\ pc' = "sleep2"

\* on_created up to its first suspension point
on_created(ev) ==
  IF is_shutting_down \/ ev.is_directory
  THEN Return
  ELSE IF LowerEndsWith(ev.src_path, ".ready")
  THEN LET m4b_file == StripSuffix(ev.src_path) IN
       IF /\ LowerEndsWith(m4b_file, ".m4b")
          /\ m4b_file \in fs
          /\ m4b_file \notin processing
       THEN /\ Enter(ev, m4b_file)
            /\ UNCHANGED <<fs, size, processedDir, archived, initial_size,
                           sessions, uploads, sent_size>>
       ELSE Return
  ELSE IF ~LowerEndsWith(ev.src_path, ".m4b")
  THEN Return
  ELSE IF ev.src_path \notin fs
  THEN Return                          \* os.path.getsize raises OSError
  ELSE /\ initial_size' = size[ev.src_path]
       /\ event' = ev
       /\ pc' = "settle"               \* time.sleep(10)
       /\ UNCHANGED <<fs, size, processedDir, archived, processing, target,
                      ops, sessions, uploads, sent_size>>

Dispatch_AnyEvent ==
  /\ pc = "idle"
  /\ UNCHANGED uvars
  /\ proc # "exited"
  /\ UNCHANGED proc
  /\ queue # <<>>
  /\ queue' = Tail(queue)
  /\ on_created(Head(queue))
  /\ UNCHANGED <<is_shutting_down, dropped, ext>>

\* the observer thread takes the next event and dispatches it; only
\* on_created is overridden, the other events reach the base class's no-ops
Dispatch ==
  /\ pc = "idle"
  /\ UNCHANGED uvars
  /\ proc # "exited"
  /\ UNCHANGED proc
  /\ queue # <<>>
  /\ queue' = Tail(queue)
  /\ IF Head(queue).type = "created" THEN on_created(Head(queue)) ELSE Return
  /\ UNCHANGED <<is_shutting_down, dropped, ext>>

Settle_MarksMissing ==
  /\ pc = "settle"
  /\ UNCHANGED uvars
  /\ proc # "exited"
  /\ UNCHANGED proc
  /\ UNCHANGED <<size, processedDir, archived, is_shutting_down,
                 sessions, uploads, sent_size, dropped, ext>>
  /\ IF event.src_path \notin fs
     THEN /\ pc' = "idle"
          /\ event' = NoEvent
          /\ initial_size' = 0
          /\ fs' = fs \cup {ReadyMarker(event.src_path)}
          /\ UNCHANGED <<queue, processing, target, ops>>
     ELSE IF ~SizeStable(initial_size, size[event.src_path])
     THEN /\ pc' = "idle"
          /\ event' = NoEvent
          /\ initial_size' = 0
          /\ UNCHANGED <<fs, queue, processing, target, ops>>
     ELSE LET ready_file == ReadyMarker(event.src_path) IN
          /\ IF ready_file \notin fs
             THEN /\ fs' = fs \cup {ready_file}
                  /\ queue' = Append(queue, OwnCreated(ready_file, FALSE))
             ELSE UNCHANGED <<fs, queue>>
          /\ IF is_file_ready(fs', event.src_path)
             THEN /\ Enter(event, event.src_path)
                  /\ UNCHANGED initial_size
             ELSE /\ pc' = "idle"
                  /\ event' = NoEvent
                  /\ initial_size' = 0
                  /\ UNCHANGED <<processing, target, ops>>

\* on_created, lines 230-250: the second sample, the marker, and the call of
\* async_process_file up to its first await
Settle ==
  /\ pc = "settle"
  /\ UNCHANGED uvars
  /\ proc # "exited"
  /\ UNCHANGED proc
  /\ UNCHANGED <<size, processedDir, archived, is_shutting_down,
                 sessions, uploads, sent_size, dropped, ext>>
  /\ IF event.src_path \notin fs
     THEN \* os.path.getsize raises OSError
          /\ pc' = "idle"
          /\ event' = NoEvent
          /\ initial_size' = 0
          /\ UNCHANGED <<fs, queue, processing, target, ops>>
     ELSE IF ~SizeStable(initial_size, size[event.src_path])
     THEN /\ pc' = "idle"
          /\ event' = NoEvent
          /\ initial_size' = 0
          /\ UNCHANGED <<fs, queue, processing, target, ops>>
     ELSE LET ready_file == ReadyMarker(event.src_path) IN
          /\ IF ready_file \notin fs
             THEN /\ fs' = fs \cup {ready_file}
                  /\ queue' = Append(queue, OwnCreated(ready_file, FALSE))
             ELSE UNCHANGED <<fs, queue>>
          /\ IF is_file_ready(fs', event.src_path)
             THEN /\ Enter(event, event.src_path)
                  /\ UNCHANGED initial_size
             ELSE /\ pc' = "idle"
                  /\ event' = NoEvent
                  /\ initial_size' = 0
                  /\ UNCHANGED <<processing, target, ops>>

Raise_Continues(what) ==
  /\ ops' = Append(ops, what)
  /\ pc' = "sending"

\* the exception handler of async_process_file, lines 197-198
Raise(what) ==
  /\ ops' = ops \o <<what, "error">>
  /\ pc' = "finally"

\* async_process_file, lines 159-172, and upload_to_telegram, lines 46-53:
\* from the end of asyncio.sleep(2) to the await of bot.send_document
Prepare(metadata_ok) ==
  /\ pc = "sleep2"
  /\ UNCHANGED uvars
  /\ proc # "exited"
  /\ UNCHANGED proc
  /\ UNCHANGED <<fs, size, processedDir, archived, queue, processing,
                 is_shutting_down, event, target, initial_size, uploads,
                 dropped, ext>>
  /\ IF ~is_file_ready(fs, target)
     THEN /\ ops' = Append(ops, "skip")
          /\ pc' = "finally"
          /\ UNCHANGED <<sessions, sent_size>>
     ELSE IF target \notin fs \/ ~metadata_ok
     THEN \* AudiobookMetadata raises FileNotFoundError or ValueError
          /\ Raise("metadata_failed")
          /\ UNCHANGED <<sessions, sent_size>>
     ELSE IF SizeExceeded(size[target])
     THEN /\ Raise("size_exceeded")
          /\ UNCHANGED <<sessions, sent_size>>
     ELSE \* Bot(...), upload_to_telegram: the size check again, open, send_document
          /\ sessions' = [sessions EXCEPT ![target] = @ + 1]
          /\ sent_size' = size[target]
          /\ ops' = Append(ops, "send")
          /\ pc' = "sending"

\* upload_to_telegram, lines 53-64, and async_process_file, lines 172-173:
\* bot.send_document returns or raises
SendDone_ArchiveAnyway(sent) ==
  /\ pc = "sending"
  /\ UNCHANGED uvars
  /\ proc # "exited"
  /\ UNCHANGED proc
  /\ UNCHANGED <<fs, size, processedDir, archived, queue, processing,
                 is_shutting_down, event, target, initial_size, sessions,
                 sent_size, dropped, ext>>
  /\ IF sent
     THEN /\ uploads' = [uploads EXCEPT ![target] = @ + 1]
          /\ ops' = Append(ops, "uploaded")
          /\ pc' = "archive"
     ELSE /\ ops' = Append(ops, "upload_failed")
          /\ pc' = "archive"
          /\ UNCHANGED uploads

SendDone_Cleanup(sent) ==
  /\ pc = "sending"
  /\ UNCHANGED uvars
  /\ proc # "exited"
  /\ UNCHANGED proc
  /\ UNCHANGED <<size, processedDir, archived, queue, processing,
                 is_shutting_down, event, target, initial_size, sessions,
                 sent_size, dropped, ext>>
  /\ IF sent
     THEN /\ uploads' = [uploads EXCEPT ![target] = @ + 1]
          /\ ops' = Append(ops, "uploaded")
          /\ pc' = "archive"
          /\ UNCHANGED fs
     ELSE /\ Raise("upload_failed")
          /\ fs' = fs \ {ReadyMarker(target)}
          /\ UNCHANGED uploads

SendDone(sent) ==
  /\ pc = "sending"
  /\ UNCHANGED uvars
  /\ proc # "exited"
  /\ UNCHANGED proc
  /\ UNCHANGED <<fs, size, processedDir, archived, queue, processing,
                 is_shutting_down, event, target, initial_size, sessions,
                 sent_size, dropped, ext>>
  /\ IF sent
     THEN /\ uploads' = [uploads EXCEPT ![target] = @ + 1]
          /\ ops' = Append(ops, "uploaded")
          /\ pc' = "archive"
     ELSE /\ Raise("upload_failed")
          /\ UNCHANGED uploads

\* async_process_file, lines 175-187: the processed directory and os.rename
Archive(makedirs_ok, rename_ok) ==
  /\ pc = "archive"
  /\ UNCHANGED uvars
  /\ proc # "exited"
  /\ UNCHANGED proc
  /\ UNCHANGED <<size, processing, is_shutting_down, event, target, initial_size,
                 sessions, uploads, sent_size, dropped, ext>>
  /\ IF ~processedDir /\ ~makedirs_ok
     THEN \* os.makedirs raises OSError outside the inner try
          /\ Raise("makedirs_failed")
          /\ UNCHANGED <<fs, processedDir, archived, queue>>
     ELSE LET made == IF processedDir THEN <<>> ELSE <<"makedirs">>
              dirEvents == IF processedDir THEN <<>>
                           ELSE <<OwnCreated(PROCESSED_DIR, TRUE)>> IN
          /\ processedDir' = TRUE
          /\ IF rename_ok /\ target \in fs
             THEN /\ fs' = fs \ {target}
                  /\ archived' = archived \cup {target}
                  /\ queue' = queue \o dirEvents
                  /\ ops' = ops \o made \o <<"rename">>
                  /\ pc' = "unmark"
             ELSE \* os.rename raises OSError: logged, return
                  /\ queue' = queue \o dirEvents
                  /\ ops' = ops \o made \o <<"rename_failed">>
                  /\ pc' = "finally"
                  /\ UNCHANGED <<fs, archived>>

\* async_process_file, lines 189-196: the marker is removed
Unmark(remove_ok) ==
  /\ pc = "unmark"
  /\ UNCHANGED uvars
  /\ proc # "exited"
  /\ UNCHANGED proc
  /\ UNCHANGED <<size, processedDir, archived, queue, processing,
                 is_shutting_down, event, target, initial_size, sessions,
                 uploads, sent_size, dropped, ext>>
  /\ pc' = "finally"
  /\ IF ReadyMarker(target) \in fs
     THEN IF remove_ok
          THEN /\ fs' = fs \ {ReadyMarker(target)}
               /\ ops' = Append(ops, "unmark")
          ELSE /\ ops' = Append(ops, "unmark_failed")
               /\ UNCHANGED fs
     ELSE UNCHANGED <<fs, ops>>

\* async_process_file, lines 199-201: the finally clause; on_created returns
Finally ==
  /\ pc = "finally"
  /\ UNCHANGED uvars
  /\ proc # "exited"
  /\ UNCHANGED proc
  /\ processing' = Release(target)
  /\ pc' = "idle"
  /\ event' = NoEvent
  /\ target' = <<>>
  /\ ops' = <<>>
  /\ sent_size' = 0
  /\ initial_size' = 0
  /\ UNCHANGED <<fs, size, processedDir, archived, queue, is_shutting_down,
                 sessions, uploads, dropped, ext>>

\* signal_handler (lines 254-259) on SIGINT or SIGTERM: 'observer' is a local
\* of watch, not a global, so the observer is not stopped; sys.exit(0) raises
\* SystemExit in the main thread, whose finally clause (lines 305-307) waits
\* in observer.join(timeout=10).  is_shutting_down is not set.
Signal ==
  /\ proc = "running"
  /\ proc' = "joining"
  /\ UNCHANGED uvars
  /\ UNCHANGED <<fs, size, processedDir, archived, queue, dropped, ext, handlerVars>>

\* observer.join(timeout=10) returns with the observer thread still alive
\* (lines 307-309); SystemExit ends the process and its daemon threads
Exit ==
  /\ proc = "joining"
  /\ proc' = "exited"
  /\ UNCHANGED uvars
  /\ UNCHANGED <<fs, size, processedDir, archived, queue, dropped, ext, handlerVars>>

Environment ==
  \/ \E p \in MediaPaths, s \in FileSizes : Drop(p, s)
  \/ \E p \in MediaPaths : Redeliver(p)
  \/ \E p \in MediaPaths : Touch(p)
  \/ \E p \in MediaPaths, s \in FileSizes : Write(p, s)
  \/ \E x \in fs : Delete(x)
  \/ DropOther

Handler ==
  \/ Dispatch
  \/ Settle
  \/ \E metadata_ok \in BOOLEAN : Prepare(metadata_ok)
  \/ \E sent \in BOOLEAN : SendDone(sent)
  \/ \E makedirs_ok \in BOOLEAN, rename_ok \in BOOLEAN : Archive(makedirs_ok, rename_ok)
  \/ \E remove_ok \in BOOLEAN : Unmark(remove_ok)
  \/ Finally

-----------------------------------------------------------------------------
(* The retry loops of TelegramUploader (src/telegram_uploader.py).  Each   *)
(* loop is named after the line of its while statement.                    *)

\* TelegramUploader.__init__, lines 46-47
DEFAULT_MAX_RETRIES == 3
RETRY_DELAY == 30

\* loops whose backoff starts from self.retry_delay (lines 240, 294, 585)
RetryDelayLoops == {"upload_file:208", "upload_file:261", "upload_file:553"}

\* loops whose backoff starts from the literal 60 (lines 700, 1045, 1214)
LiteralLoops == {"upload_file:664", "upload_file:1023", "upload_audio:1131"}

Loops == RetryDelayLoops \cup LiteralLoops

\* the seconds a rate-limit answer asks for (FloodWait.value, RetryAfter.retry_after)
FloodWaits == {15, 2000}

RECURSIVE Pow2(_)
Pow2(n) == IF n = 0 THEN 1 ELSE 2 * Pow2(n - 1)

Min(a, b) == IF a < b THEN a ELSE b

\* the first factor of the backoff product in each loop
Base(l) == IF l \in RetryDelayLoops THEN RETRY_DELAY ELSE 60

BackoffDelay_NoCeiling(l, attempt) == Base(l) * Pow2(attempt - 1)

\* wait_time = min(1800, base * (2 ** (retry_count - 1)))
BackoffDelay(l, attempt) == Min(1800, Base(l) * Pow2(attempt - 1))

\* the loop that sends the file chunk by chunk (lines 1141-1164)
ChunkedLoop == "upload_audio:1131"

\* chunk_size: int = 8388608 (line 1083)
DEFAULT_CHUNK_SIZE == 8388608

\* the read position when no file is open (outside async with aiofiles.open)
Closed == -1

\* byte values
Bytes == {0, 1}

\* the files of the model: every byte string of at most MaxFileLen bytes
Files == UNION {[1..n -> Bytes] : n \in 0..MaxFileLen}

\* Scenario A of the spec in units of 4 MiB: 100 MiB sent in chunks of 8 MiB
SCENARIO_A_FILE == [i \in 1..25 |-> 0]
SCENARIO_A_CHUNK == 2

\* ChunkedUploader: the digest of a chunk; two chunks have the same digest
\* exactly when they are the same bytes
Digest(chunk) == <<"digest", chunk>>

\* the i-th chunk of f (i from 0) for chunk size c
ChunkAt(f, c, i) == SubSeq(f, i * c + 1, Min((i + 1) * c, Len(f)))

\* ChunkedUploader.init_upload: the digests of the chunks of the file
init_upload(f, c) ==
  [i \in 1..((Len(f) + c - 1) \div c) |-> Digest(ChunkAt(f, c, i - 1))]

\* ChunkedUploader.verify_chunk
verify_chunk(chunk, expected) == Digest(chunk) = expected

\* await file.read(chunk_size) at read position pos (line 1143)
Read(f, pos, c) == SubSeq(f, pos + 1, Min(pos + c, Len(f)))

\* the loops that edit progress_message (lines 208, 261, 553, 664)
ProgressMessageLoops == Loops \ {"upload_file:1023", "upload_audio:1131"}

\* whether loop l sends a status message of this kind: the notice of a
\* rate-limit wait (lines 231, 285, 576, 690; none at 1037-1040, 1204-1209),
\* of a retry (247, 301, 592, 707, 1220; none at 1042-1047), of the failure
\* (258, 312, 603, 718, 1232, 1237; none at 1069-1073) and of the completion
\* (222, 276, 567, 680, 1197)
Notifies(l, kind) ==
  CASE kind = "flood" -> l \in ProgressMessageLoops
    [] kind = "retry" -> l \in ProgressMessageLoops \cup {"upload_audio:1131"}
    [] kind = "failure" -> l \in ProgressMessageLoops \cup {"upload_audio:1131"}
    [] kind = "complete" -> l \in ProgressMessageLoops \cup {"upload_audio:1131"}
    [] OTHER -> FALSE

\* await progress_message.edit_text(...) / await self.bot.send_message(...):
\* what the call adds to the status messages tried, ok when it did not raise
Status(l, kind, ok) ==
  IF Notifies(l, kind) THEN <<[kind |-> kind, ok |-> ok]>> ELSE <<>>

\* the progress paths: the three _progress_callback bodies (lines 111, 315,
\* 406) that the client calls, and upload_audio's call of the callback it was
\* given (lines 1166-1187)
Reporters ==
  {"_progress_callback:111", "_progress_callback:315", "_progress_callback:406",
   "upload_audio:1166"}

\* the bodies that start with the once-per-second test (lines 129, 409)
RateLimitedReporters == {"_progress_callback:111", "_progress_callback:406"}

\* one second of time.time(), in the half seconds the clock is counted in
SECOND == 2

\* time.time() when the state is made: 'start_time': time.time() (line 106)
START_TIME == 10

\* no transfer reports progress, no text message is being sent
NoProgress ==
  /\ retry = TRUE
  /\ returned = "none"
  /\ sends = <<>>
  /\ reporter = "upload_audio:1166"
  /\ now = START_TIME
  /\ last_progress_update = 0
  /\ current = 0
  /\ total = 0
  /\ emitted = <<>>

\* _init_upload_state (lines 96-110): 'last_progress_update': 0
ProgressInit ==
  /\ reporter \in Reporters
  /\ now = START_TIME
  /\ last_progress_update = 0
  /\ current = 0
  /\ total \in 1..MaxTotal
  /\ emitted = <<>>

\* half a second passes
Tick ==
  /\ now < START_TIME + MaxTicks
  /\ now' = now + 1
  /\ UNCHANGED <<reporter, last_progress_update, current, total, emitted>>
  /\ UNCHANGED wvars
  /\ UNCHANGED <<loop, max_retries, retry_count, wait_time, upc, slept, floods, cvars,
                 position, error, notices, mvars>>

\* message.edit_text(status_text) / progress_callback(...): one emission
Emit(what) == Append(emitted, [at |-> now, current |-> what])

\* n more bytes are acknowledged and the progress path is called with the new
\* count. Lines 129-136: return within a second of the last update, tell
\* "Finalizing upload..." at the end without touching the timestamp, else
\* stamp and tell. Lines 409-435: return within a second, else stamp and
\* tell. Lines 331-356 and 1166-1187: tell, whatever the time
Report(n) ==
  /\ current + n <= total
  /\ current' = current + n
  /\ IF reporter \in RateLimitedReporters /\ now - last_progress_update < SECOND
     THEN UNCHANGED <<last_progress_update, emitted>>
     ELSE /\ emitted' = Emit(current')
          /\ last_progress_update' =
               IF \/ reporter = "_progress_callback:406"
                  \/ reporter = "_progress_callback:111" /\ current' # total
               THEN now
               ELSE last_progress_update
  /\ UNCHANGED <<reporter, now, total>>
  /\ UNCHANGED wvars
  /\ UNCHANGED <<loop, max_retries, retry_count, wait_time, upc, slept, floods, cvars,
                 position, error, notices, mvars>>

\* no chunked upload: the state of upload_audio for an empty file
NoChunks ==
  /\ file = <<>>
  /\ chunk_size = DEFAULT_CHUNK_SIZE
  /\ chunk_hashes = <<>>
  /\ current_chunk = 0
  /\ uploaded_size = 0
  /\ position = Closed
  /\ acked = <<>>
  /\ error = "none"
  /\ exists = TRUE
  /\ again = FALSE
  /\ notices = <<>>

UploaderIdle ==
  /\ loop = "upload_audio:1131"
  /\ max_retries = DEFAULT_MAX_RETRIES
  /\ retry_count = 0
  /\ wait_time = 0
  /\ upc = "done"
  /\ slept = <<>>
  /\ floods = 0
  /\ NoChunks
  /\ NoProgress

\* retry_count = 0 and the first pass of the while loop
RetryInit ==
  /\ loop \in Loops
  /\ max_retries \in 1..MaxRetries
  /\ retry_count = 0
  /\ wait_time = 0
  /\ upc = "attempt"
  /\ slept = <<>>
  /\ floods = 0
  /\ NoChunks
  /\ NoProgress

\* upload_audio up to its while loop (lines 1110-1131)
UploadAudioInit ==
  /\ loop = ChunkedLoop
  /\ max_retries \in 1..MaxAudioRetries
  /\ retry_count = 0
  /\ wait_time = 0
  /\ upc = "init"
  /\ slept = <<>>
  /\ floods = 0
  /\ \/ file \in Files /\ chunk_size \in 1..MaxChunkSize
     \/ file = SCENARIO_A_FILE /\ chunk_size = SCENARIO_A_CHUNK
  /\ exists \in BOOLEAN
  /\ ~exists => file = <<>>
  /\ chunk_hashes = <<>>
  /\ current_chunk = 0
  /\ uploaded_size = 0
  /\ position = Closed
  /\ acked = <<>>
  /\ error = "none"
  /\ again = FALSE
  /\ notices = <<>>
  /\ NoProgress

Initialize_KeepsState(status_ok) ==
  /\ upc = "init"
  /\ loop = ChunkedLoop
  /\ UNCHANGED wvars
  /\ UNCHANGED pvars
  /\ UNCHANGED mvars
  /\ IF ~exists
     THEN /\ upc' = "failed"
          /\ error' = "FileNotFoundError"
          /\ notices' = notices \o Status(loop, "failure", status_ok)
          /\ UNCHANGED chunk_hashes
     ELSE /\ status_ok
          /\ upc' = "attempt"
          /\ chunk_hashes' = init_upload(file, chunk_size)
          /\ UNCHANGED <<error, notices>>
  /\ UNCHANGED <<retry_count, current_chunk, uploaded_size>>
  /\ UNCHANGED <<loop, max_retries, wait_time, slept, floods, position>>
  /\ UNCHANGED <<file, chunk_size, acked, exists, again>>

\* upload_audio before its while loop (lines 1110-1130): a path that does not
\* exist raises FileNotFoundError, which except Exception (lines 1234-1238)
\* reports and raises again; any other file, an empty one too, gets a new
\* UploadState from init_upload (cursor 0, no bytes sent) and retry_count = 0,
\* and goes into the loop
Initialize(status_ok) ==
  /\ upc = "init"
  /\ loop = ChunkedLoop
  /\ UNCHANGED wvars
  /\ UNCHANGED pvars
  /\ UNCHANGED mvars
  /\ IF ~exists
     THEN /\ upc' = "failed"
          /\ error' = "FileNotFoundError"
          /\ notices' = notices \o Status(loop, "failure", status_ok)
          /\ UNCHANGED <<chunk_hashes, retry_count, current_chunk, uploaded_size>>
     ELSE /\ status_ok
          /\ upc' = "attempt"
          /\ chunk_hashes' = init_upload(file, chunk_size)
          /\ current_chunk' = 0
          /\ uploaded_size' = 0
          /\ retry_count' = 0
          /\ UNCHANGED <<error, notices>>
  /\ UNCHANGED <<loop, max_retries, wait_time, slept, floods, position>>
  /\ UNCHANGED <<file, chunk_size, acked, exists, again>>

\* the session is over and the caller calls upload_audio once more for the
\* same file (audiobook_uploader.py lines 123-128): what the first call kept
\* of the session is not looked at again
Call ==
  /\ upc \in {"done", "failed", "exhausted"}
  /\ loop = ChunkedLoop
  /\ ~again
  /\ again' = TRUE
  /\ upc' = "init"
  /\ slept' = <<>>
  /\ floods' = 0
  /\ acked' = <<>>
  /\ notices' = <<>>
  /\ error' = "none"
  /\ UNCHANGED wvars
  /\ UNCHANGED pvars
  /\ UNCHANGED mvars
  /\ UNCHANGED <<loop, max_retries, retry_count, wait_time, position>>
  /\ UNCHANGED <<file, chunk_size, chunk_hashes, current_chunk, uploaded_size, exists>>

\* the chunk loop is over: the cursor is at the end, or read returned nothing
ChunksDone ==
  \/ current_chunk >= Len(chunk_hashes)
  \/ position # Closed /\ Read(file, position, chunk_size) = <<>>

\* a call to the transport is what runs next: the status message before the
\* file is opened, upload_chunk of a verified chunk, or the completion message
TransportCallNext ==
  \/ loop # ChunkedLoop
  \/ position = Closed
  \/ ChunksDone
  \/ /\ position # Closed
     /\ current_chunk < Len(chunk_hashes)
     /\ verify_chunk(Read(file, position, chunk_size), chunk_hashes[current_chunk + 1])

\* the status message is sent and the file opened: async with aiofiles.open
Open ==
  /\ upc = "attempt"
  /\ loop = ChunkedLoop
  /\ position = Closed
  /\ UNCHANGED wvars
  /\ UNCHANGED pvars
  /\ UNCHANGED mvars
  /\ position' = 0
  /\ UNCHANGED <<loop, max_retries, retry_count, wait_time, upc, slept, floods, cvars>>
  /\ UNCHANGED <<error, notices>>

SendChunk_Unverified ==
  /\ upc = "attempt"
  /\ loop = ChunkedLoop
  /\ position # Closed
  /\ current_chunk < Len(chunk_hashes)
  /\ UNCHANGED wvars
  /\ UNCHANGED pvars
  /\ UNCHANGED mvars
  /\ LET chunk == Read(file, position, chunk_size) IN
       /\ chunk # <<>>
       /\ acked' = Append(acked, [offset |-> current_chunk * chunk_size, chunk |-> chunk])
       /\ uploaded_size' = uploaded_size + Len(chunk)
       /\ current_chunk' = current_chunk + 1
       /\ position' = position + Len(chunk)
  /\ UNCHANGED <<loop, max_retries, retry_count, wait_time, upc, slept, floods>>
  /\ UNCHANGED <<file, chunk_size, chunk_hashes, exists, again>>
  /\ UNCHANGED <<error, notices>>

SendChunk_CountsChunkSize ==
  /\ upc = "attempt"
  /\ loop = ChunkedLoop
  /\ position # Closed
  /\ current_chunk < Len(chunk_hashes)
  /\ UNCHANGED wvars
  /\ UNCHANGED pvars
  /\ UNCHANGED mvars
  /\ LET chunk == Read(file, position, chunk_size) IN
       /\ chunk # <<>>
       /\ verify_chunk(chunk, chunk_hashes[current_chunk + 1])
       /\ acked' = Append(acked, [offset |-> current_chunk * chunk_size, chunk |-> chunk])
       /\ uploaded_size' = uploaded_size + chunk_size
       /\ current_chunk' = current_chunk + 1
       /\ position' = position + Len(chunk)
  /\ UNCHANGED <<loop, max_retries, retry_count, wait_time, upc, slept, floods>>
  /\ UNCHANGED <<file, chunk_size, chunk_hashes, exists, again>>
  /\ UNCHANGED <<error, notices>>

SendChunk_CountsTwice ==
  /\ upc = "attempt"
  /\ loop = ChunkedLoop
  /\ position # Closed
  /\ current_chunk < Len(chunk_hashes)
  /\ UNCHANGED wvars
  /\ UNCHANGED pvars
  /\ UNCHANGED mvars
  /\ LET chunk == Read(file, position, chunk_size) IN
       /\ chunk # <<>>
       /\ verify_chunk(chunk, chunk_hashes[current_chunk + 1])
       /\ acked' = Append(acked, [offset |-> current_chunk * chunk_size, chunk |-> chunk])
       /\ uploaded_size' = uploaded_size + 2 * Len(chunk)
       /\ current_chunk' = current_chunk + 1
       /\ position' = position + Len(chunk)
  /\ UNCHANGED <<loop, max_retries, retry_count, wait_time, upc, slept, floods>>
  /\ UNCHANGED <<file, chunk_size, chunk_hashes, exists, again>>
  /\ UNCHANGED <<error, notices>>

\* one pass of the chunk loop that ends well (lines 1142-1164): read, verify,
\* upload_chunk acknowledges, the counters advance
SendChunk ==
  /\ upc = "attempt"
  /\ loop = ChunkedLoop
  /\ position # Closed
  /\ current_chunk < Len(chunk_hashes)
  /\ UNCHANGED wvars
  /\ UNCHANGED pvars
  /\ UNCHANGED mvars
  /\ LET chunk == Read(file, position, chunk_size) IN
       /\ chunk # <<>>
       /\ verify_chunk(chunk, chunk_hashes[current_chunk + 1])
       /\ acked' = Append(acked, [offset |-> current_chunk * chunk_size, chunk |-> chunk])
       /\ uploaded_size' = uploaded_size + Len(chunk)
       /\ current_chunk' = current_chunk + 1
       /\ position' = position + Len(chunk)
  /\ UNCHANGED <<loop, max_retries, retry_count, wait_time, upc, slept, floods>>
  /\ UNCHANGED <<file, chunk_size, chunk_hashes, exists, again>>
  /\ UNCHANGED <<error, notices>>

VerifyFailed_Retried(status_ok) ==
  /\ upc = "attempt"
  /\ loop = ChunkedLoop
  /\ position # Closed
  /\ current_chunk < Len(chunk_hashes)
  /\ UNCHANGED wvars
  /\ UNCHANGED pvars
  /\ UNCHANGED mvars
  /\ LET chunk == Read(file, position, chunk_size) IN
       /\ chunk # <<>>
       /\ ~verify_chunk(chunk, chunk_hashes[current_chunk + 1])
  /\ retry_count' = retry_count + 1
  /\ status_ok
  /\ upc' = IF retry_count' < max_retries THEN "attempt" ELSE "failed"
  /\ position' = Closed
  /\ UNCHANGED <<loop, max_retries, wait_time, slept, floods, cvars>>
  /\ UNCHANGED <<error, notices>>

\* the chunk read does not match its digest: raise ValueError (line 1149),
\* which except Exception (lines 1225-1227) raises again and except Exception
\* (lines 1234-1238) reports
VerifyFailed(status_ok) ==
  /\ upc = "attempt"
  /\ loop = ChunkedLoop
  /\ position # Closed
  /\ current_chunk < Len(chunk_hashes)
  /\ UNCHANGED wvars
  /\ UNCHANGED pvars
  /\ UNCHANGED mvars
  /\ LET chunk == Read(file, position, chunk_size) IN
       /\ chunk # <<>>
       /\ ~verify_chunk(chunk, chunk_hashes[current_chunk + 1])
  /\ upc' = "failed"
  /\ position' = Closed
  /\ notices' = notices \o Status(loop, "failure", status_ok)
  /\ UNCHANGED <<loop, max_retries, retry_count, wait_time, slept, floods, cvars>>
  /\ error' = "ValueError"

\* the upload call returns and the completion message is sent: return result /
\* return True
Succeed ==
  /\ upc = "attempt"
  /\ loop = ChunkedLoop => position # Closed /\ ChunksDone
  /\ UNCHANGED wvars
  /\ UNCHANGED pvars
  /\ UNCHANGED mvars
  /\ upc' = "done"
  /\ position' = Closed
  /\ notices' = notices \o Status(loop, "complete", TRUE)
  /\ UNCHANGED <<loop, max_retries, retry_count, wait_time, slept, floods, cvars>>
  /\ UNCHANGED error

RateLimited_KeepsOpen(w, status_ok) ==
  /\ upc = "attempt"
  /\ TransportCallNext
  /\ UNCHANGED wvars
  /\ UNCHANGED pvars
  /\ UNCHANGED mvars
  /\ floods < MaxFloods
  /\ Notifies(loop, "flood") \/ status_ok
  /\ floods' = floods + 1
  /\ retry_count' = IF loop = "upload_audio:1131" THEN retry_count + 1 ELSE retry_count
  /\ IF status_ok
     THEN /\ wait_time' = w
          /\ slept' = Append(slept, [kind |-> "flood", secs |-> w, attempt |-> retry_count',
                                     at |-> current_chunk])
          /\ upc' = "sleeping"
          /\ notices' = notices \o Status(loop, "flood", TRUE)
          /\ UNCHANGED error
     ELSE /\ upc' = "failed"
          /\ error' = "StatusError"
          /\ notices' = notices \o Status(loop, "flood", FALSE)
                                 \o Status(loop, "failure", FALSE)
          /\ UNCHANGED <<wait_time, slept>>
  /\ UNCHANGED position
  /\ UNCHANGED <<loop, max_retries, cvars>>

\* except FloodWait / RetryAfter: tell the chat where the loop does so, sleep
\* what the server asks for, continue; upload_audio (line 1205) counts the
\* answer as a retry, the others do not. A status message that raises leaves
\* the handler before the sleep: the outer except reports and raises again
RateLimited(w, status_ok) ==
  /\ upc = "attempt"
  /\ TransportCallNext
  /\ UNCHANGED wvars
  /\ UNCHANGED pvars
  /\ UNCHANGED mvars
  /\ floods < MaxFloods
  /\ Notifies(loop, "flood") \/ status_ok
  /\ floods' = floods + 1
  /\ retry_count' = IF loop = "upload_audio:1131" THEN retry_count + 1 ELSE retry_count
  /\ IF status_ok
     THEN /\ wait_time' = w
          /\ slept' = Append(slept, [kind |-> "flood", secs |-> w, attempt |-> retry_count',
                                     at |-> current_chunk])
          /\ upc' = "sleeping"
          /\ notices' = notices \o Status(loop, "flood", TRUE)
          /\ UNCHANGED error
     ELSE /\ upc' = "failed"
          /\ error' = "StatusError"
          /\ notices' = notices \o Status(loop, "flood", FALSE)
                                 \o Status(loop, "failure", FALSE)
          /\ UNCHANGED <<wait_time, slept>>
  /\ position' = Closed
  /\ UNCHANGED <<loop, max_retries, cvars>>

\* except (NetworkError, TimeoutError / TimedOut): count, then tell the chat
\* where the loop does so and back off, or raise to the outer except, which
\* reports where the loop does so. A retry message that raises leaves the
\* handler before the sleep
Transient(status_ok) ==
  /\ upc = "attempt"
  /\ TransportCallNext
  /\ UNCHANGED wvars
  /\ UNCHANGED pvars
  /\ UNCHANGED mvars
  /\ retry_count' = retry_count + 1
  /\ IF retry_count' < max_retries
     THEN /\ Notifies(loop, "retry") \/ status_ok
          /\ IF status_ok
             THEN /\ wait_time' = BackoffDelay(loop, retry_count')
                  /\ slept' = Append(slept, [kind |-> "backoff", secs |-> wait_time',
                                             attempt |-> retry_count', at |-> current_chunk])
                  /\ upc' = "sleeping"
                  /\ notices' = notices \o Status(loop, "retry", TRUE)
                  /\ UNCHANGED error
             ELSE /\ upc' = "failed"
                  /\ error' = "StatusError"
                  /\ notices' = notices \o Status(loop, "retry", FALSE)
                                         \o Status(loop, "failure", FALSE)
                  /\ UNCHANGED <<wait_time, slept>>
     ELSE /\ Notifies(loop, "failure") \/ status_ok
          /\ upc' = "failed"
          /\ error' = "NetworkError"
          /\ notices' = notices \o Status(loop, "failure", status_ok)
          /\ UNCHANGED <<wait_time, slept>>
  /\ position' = Closed
  /\ UNCHANGED <<loop, max_retries, floods, cvars>>

\* any other exception is raised to the caller; the outer except reports
\* where the loop does so
Fatal(status_ok) ==
  /\ upc = "attempt"
  /\ UNCHANGED wvars
  /\ UNCHANGED pvars
  /\ UNCHANGED mvars
  /\ Notifies(loop, "failure") \/ status_ok
  /\ upc' = "failed"
  /\ position' = Closed
  /\ notices' = notices \o Status(loop, "failure", status_ok)
  /\ UNCHANGED <<loop, max_retries, retry_count, wait_time, slept, floods, cvars>>
  /\ error' = "Exception"

\* asyncio.sleep returns and the while condition is evaluated again
Wake ==
  /\ upc = "sleeping"
  /\ UNCHANGED wvars
  /\ UNCHANGED pvars
  /\ UNCHANGED mvars
  /\ upc' = IF retry_count < max_retries THEN "attempt" ELSE "exhausted"
  /\ UNCHANGED <<loop, max_retries, retry_count, wait_time, slept, floods, cvars, position>>
  /\ UNCHANGED <<error, notices>>

Init == WatcherInit /\ UploaderIdle

Next == Environment \/ Handler

Spec == Init /\ [][Next]_vars

\* the watcher with the shutdown signals
ShutdownNext == Environment \/ Handler \/ Signal \/ Exit

ShutdownSpec == Init /\ [][ShutdownNext]_vars

\* watch is started on a directory that holds an audiobook and its marker
\* (lines 277-288): no event is queued for what is already there
RestartInit ==
  /\ fs = {A_M4B, ReadyMarker(A_M4B)}
  /\ size = [p \in MediaPaths |-> 1000]
  /\ processedDir = FALSE
  /\ archived = {}
  /\ queue = <<>>
  /\ processing = {}
  /\ is_shutting_down = FALSE
  /\ pc = "idle"
  /\ event = NoEvent
  /\ target = <<>>
  /\ initial_size = 0
  /\ ops = <<>>
  /\ sessions = [p \in MediaPaths |-> 0]
  /\ uploads = [p \in MediaPaths |-> 0]
  /\ sent_size = 0
  /\ dropped = {}
  /\ ext = 0
  /\ proc = "running"
  /\ UploaderIdle

RestartSpec == RestartInit /\ [][Next]_vars

RetryLoopInit == WatcherInit /\ RetryInit

RetryLoopNext ==
  \/ Open
  \/ Succeed
  \/ \E w \in FloodWaits, status_ok \in BOOLEAN : RateLimited(w, status_ok)
  \/ \E status_ok \in BOOLEAN : Transient(status_ok)
  \/ \E status_ok \in BOOLEAN : Fatal(status_ok)
  \/ Wake

RetryLoopSpec == RetryLoopInit /\ [][RetryLoopNext]_vars

\* the retry loops when the event loop keeps running them: a coroutine that
\* can go on does go on (asyncio.sleep returns, the transport answers)
RetryLoopFairSpec == RetryLoopSpec /\ WF_vars(RetryLoopNext)

UploadAudioSpecInit == WatcherInit /\ UploadAudioInit

UploadAudioNext ==
  \/ \E status_ok \in BOOLEAN : Initialize(status_ok)
  \/ Call
  \/ Open
  \/ SendChunk
  \/ \E status_ok \in BOOLEAN : VerifyFailed(status_ok)
  \/ Succeed
  \/ \E w \in FloodWaits, status_ok \in BOOLEAN : RateLimited(w, status_ok)
  \/ \E status_ok \in BOOLEAN : Transient(status_ok)
  \/ \E status_ok \in BOOLEAN : Fatal(status_ok)
  \/ Wake

UploadAudioSpec == UploadAudioSpecInit /\ [][UploadAudioNext]_vars

\* send_message (lines 1240-1276): retry_count = 0 and the first pass of
\* 'while retry_count < (self.max_retries if retry else 1)'
MessageLoop == "send_message:1257"

SendMessageInit ==
  /\ WatcherInit
  /\ loop = MessageLoop
  /\ max_retries \in 1..MaxRetries
  /\ retry \in BOOLEAN
  /\ retry_count = 0
  /\ wait_time = 0
  /\ upc = "attempt"
  /\ slept = <<>>
  /\ floods = 0
  /\ NoChunks
  /\ returned = "none"
  /\ sends = <<>>
  /\ reporter = "upload_audio:1166"
  /\ now = START_TIME
  /\ last_progress_update = 0
  /\ current = 0
  /\ total = 0
  /\ emitted = <<>>

MessageDelay_NoCeiling(k) == 10 * k

\* wait_time = min(60, 10 * retry_count) (line 1271)
MessageDelay(k) == Min(60, 10 * k)

\* bot.send_message returns: return True (lines 1259-1267)
MessageSent ==
  /\ loop = MessageLoop
  /\ upc = "attempt"
  /\ sends' = Append(sends, "ok")
  /\ returned' = "True"
  /\ upc' = "done"
  /\ UNCHANGED wvars
  /\ UNCHANGED pvars
  /\ UNCHANGED retry
  /\ UNCHANGED <<loop, max_retries, retry_count, wait_time, slept, floods, cvars,
                 position, error, notices>>

\* except TelegramError (lines 1268-1276): count, then sleep when retry is
\* set and the budget allows another pass, else return False
MessageFailed ==
  /\ loop = MessageLoop
  /\ upc = "attempt"
  /\ sends' = Append(sends, "TelegramError")
  /\ retry_count' = retry_count + 1
  /\ IF retry /\ retry_count' < max_retries
     THEN /\ wait_time' = MessageDelay(retry_count')
          /\ slept' = Append(slept, [kind |-> "backoff", secs |-> wait_time',
                                     attempt |-> retry_count', at |-> 0])
          /\ upc' = "sleeping"
          /\ UNCHANGED returned
     ELSE /\ returned' = "False"
          /\ upc' = "failed"
          /\ UNCHANGED <<wait_time, slept>>
  /\ UNCHANGED wvars
  /\ UNCHANGED pvars
  /\ UNCHANGED retry
  /\ UNCHANGED <<loop, max_retries, floods, cvars, position, error, notices>>

\* an exception that is no TelegramError is not caught: it leaves send_message
MessageRaised ==
  /\ loop = MessageLoop
  /\ upc = "attempt"
  /\ sends' = Append(sends, "Exception")
  /\ upc' = "failed"
  /\ error' = "Exception"
  /\ UNCHANGED wvars
  /\ UNCHANGED pvars
  /\ UNCHANGED <<retry, returned>>
  /\ UNCHANGED <<loop, max_retries, retry_count, wait_time, slept, floods, cvars,
                 position, notices>>

\* asyncio.sleep returns (line 1273) and the while condition, which holds
\* after every sleep, lets the next pass start
MessageWake ==
  /\ loop = MessageLoop
  /\ upc = "sleeping"
  /\ upc' = IF retry_count < (IF retry THEN max_retries ELSE 1) THEN "attempt" ELSE "exhausted"
  /\ UNCHANGED wvars
  /\ UNCHANGED pvars
  /\ UNCHANGED mvars
  /\ UNCHANGED <<loop, max_retries, retry_count, wait_time, slept, floods, cvars,
                 position, error, notices>>

SendMessageNext ==
  \/ MessageSent
  \/ MessageFailed
  \/ MessageRaised
  \/ MessageWake

SendMessageSpec == SendMessageInit /\ [][SendMessageNext]_vars

\* a transfer that reports its progress while the clock runs
ProgressSpecInit ==
  /\ WatcherInit
  /\ loop = "upload_audio:1131"
  /\ max_retries = DEFAULT_MAX_RETRIES
  /\ retry_count = 0
  /\ wait_time = 0
  /\ upc = "attempt"
  /\ slept = <<>>
  /\ floods = 0
  /\ NoChunks
  /\ retry = TRUE
  /\ returned = "none"
  /\ sends = <<>>
  /\ ProgressInit

ProgressNext ==
  \/ Tick
  \/ \E n \in 1..MaxTotal : Report(n)

ProgressSpec == ProgressSpecInit /\ [][ProgressNext]_vars

-----------------------------------------------------------------------------
(* Properties of the watcher.                                              *)

InFlight == {"sleep2", "sending", "archive", "unmark", "finally"}

Has(seq, x) == \E i \in 1..Len(seq) : seq[i] = x

Pos(seq, x) == CHOOSE i \in 1..Len(seq) : seq[i] = x

\* C1: single-flight as the claim states it: an event that arrived while its
\* path was in the ledger (a concurrent duplicate) is dropped, it never
\* starts a further upload session for the path.
C1_BusyEventDropped ==
  (pc \in InFlight /\ Has(ops, "send") /\ event.busy) => sessions[target] <= 1

\* C2: each file is uploaded to the destination at most once.
C2_UploadedAtMostOnce == \A p \in MediaPaths : uploads[p] <= 1

\* C3: the ledger holds exactly the path of the processing attempt that has
\* been accepted and has not finished yet; it is empty when there is none,
\* and it never holds two entries.
C3_LedgerSpansAttempt ==
  /\ pc \in InFlight => processing = {target} /\ target \in MediaPaths
  /\ pc \notin InFlight => processing = {}

\* an attempt that failed has finished and has left the ledger
C3_Witness ==
  /\ pc = "idle"
  /\ processing = {}
  /\ sessions[A_M4B] = 1
  /\ uploads[A_M4B] = 0

\* C4: when the marker is absent at the check, the attempt ends as a skip:
\* no upload session is started, nothing is sent, no error is reported.
C4_MarkerAuthorizes ==
  [][(pc = "sleep2" /\ pc' # "sleep2" /\ ReadyMarker(target) \notin fs)
       => /\ pc' = "finally"
          /\ ops' = <<"add", "skip">>
          /\ sessions' = sessions
          /\ uploads' = uploads]_vars

\* the marker was deleted during the wait and the attempt was skipped
C4_Witness ==
  /\ pc = "finally"
  /\ ops = <<"add", "skip">>
  /\ target \in fs
  /\ sessions[target] = 0

C6_ArchiveOrder ==
  /\ \A i \in 1..Len(ops) :
       ops[i] \in {"makedirs", "rename", "unmark"}
         => \E j \in 1..(i - 1) : ops[j] = "uploaded"
  /\ Has(ops, "rename") /\ Has(ops, "makedirs")
       => Pos(ops, "makedirs") < Pos(ops, "rename")
  /\ Has(ops, "unmark") => Has(ops, "rename") /\ Pos(ops, "rename") < Pos(ops, "unmark")
  /\ Has(ops, "rename") => target \in processing /\ target \in archived /\ processedDir
  /\ pc = "unmark" => Has(ops, "rename")
  /\ pc = "archive" => Has(ops, "uploaded")

\* a successful session that created the directory, moved the file and
\* removed the marker, before the ledger entry is removed
C6_Witness ==
  /\ pc = "finally"
  /\ ops = <<"add", "send", "uploaded", "makedirs", "rename", "unmark">>
  /\ target \in processing
  /\ ReadyMarker(target) \notin fs

\* C7: no step of a processing attempt whose upload has not succeeded
\* changes the watched directory or the processed area.
C7_FailedLeavesFiles ==
  [][(pc \in InFlight /\ pc' # pc /\ ~Has(ops, "uploaded") /\ ~Has(ops', "uploaded"))
       => /\ fs' = fs
          /\ size' = size
          /\ archived' = archived
          /\ processedDir' = processedDir]_vars

\* a failed session: file and marker are where they were
C7_Witness ==
  /\ pc = "finally"
  /\ ops = <<"add", "send", "upload_failed", "error">>
  /\ target \in fs
  /\ ReadyMarker(target) \in fs
  /\ archived = {}

\* C8: after the upload succeeded, a failure of the archival does not reach
\* the error handler of the processing attempt.
C8_ArchiveFailureNotAnError == Has(ops, "uploaded") => ~Has(ops, "error")

\* C9: a file larger than the maximum is rejected before any upload session
\* is started (nothing is sent); everything up to the maximum is sent.
C9_SizeLimit ==
  [][(/\ pc = "sleep2"
      /\ pc' # "sleep2"
      /\ ReadyMarker(target) \in fs
      /\ target \in fs)
       => IF size[target] > MAX_FILE_SIZE
          THEN /\ sessions' = sessions
               /\ pc' = "finally"
               /\ Has(ops', "error")
               /\ ~Has(ops', "send")
          ELSE Has(ops', "metadata_failed")
                 \/ (pc' = "sending" /\ sent_size' = size[target]
                       /\ sessions'[target] = sessions[target] + 1)]_vars

\* a file of exactly the maximum size is being sent
C9_Witness ==
  /\ pc = "sending"
  /\ sent_size = MAX_FILE_SIZE
  /\ size[target] = MAX_FILE_SIZE

-----------------------------------------------------------------------------
(* Properties of the retry loops.                                          *)

\* the delay of attempt a by doubling: b, 2b, 4b, ... cut at the ceiling
RECURSIVE Doubling(_, _)
Doubling(b, a) == IF a = 1 THEN b ELSE Min(1800, 2 * Doubling(b, a - 1))

Backoffs == {i \in 1..Len(slept) : slept[i].kind = "backoff"}

\* C10 as stated: in every retry loop the backoff delay of attempt a is
\* min(1800, 60 * 2^(a-1)).
C10_Base60Everywhere ==
  \A i \in Backoffs : slept[i].secs = Min(1800, 60 * Pow2(slept[i].attempt - 1))

\* C10 amended: the backoff delay of attempt a is base, doubled a-1 times and
\* cut at 1800, with base 60 in the loops of lines 664, 1023 and 1131 and base
\* 30 (self.retry_delay) in the loops of lines 208, 261 and 553; within a
\* session it never decreases and stays 1800 once it is 1800.
C10_BackoffDelay ==
  /\ \A i \in Backoffs :
       /\ slept[i].attempt >= 1
       /\ slept[i].secs =
            Doubling(IF loop \in {"upload_file:208", "upload_file:261", "upload_file:553"}
                     THEN 30 ELSE 60,
                     slept[i].attempt)
       /\ slept[i].secs <= 1800
  /\ \A i, j \in Backoffs :
       i < j => /\ slept[i].secs <= slept[j].secs
                /\ slept[i].secs = 1800 => slept[j].secs = 1800

\* a session that backed off twice at the ceiling, after smaller delays
C10_Witness ==
  /\ upc = "sleeping"
  /\ Len(slept) >= 7
  /\ slept[1].secs = 60
  /\ slept[Len(slept) - 1].secs = 1800
  /\ slept[Len(slept)].secs = 1800
  /\ \A i \in 1..Len(slept) : slept[i].kind = "backoff"

\* the last sleep of the session
LastSleep == slept[Len(slept)]

\* this step handled a rate-limit answer (it appended a "flood" sleep)
FloodStep ==
  /\ Len(slept') = Len(slept) + 1
  /\ slept'[Len(slept')].kind = "flood"

\* this step handled a network error or a timeout: it left "attempt" for a
\* backoff sleep, or it raised after counting the failure
TransientStep ==
  /\ upc = "attempt"
  /\ ~FloodStep
  /\ \/ Len(slept') = Len(slept) + 1
     \/ upc' = "failed" /\ retry_count' # retry_count

\* C11: in every retry loop a rate-limit answer leaves the retry counter as it
\* is, and a network error or timeout adds exactly one to it.
C11_BudgetCounter ==
  [][/\ FloodStep => retry_count' = retry_count
     /\ TransientStep => retry_count' = retry_count + 1]_vars

\* C12: after a rate-limit answer the session sleeps exactly the seconds the
\* server named, more than 1800 included, and then attempts the transfer
\* again: the sleep is never followed by the end of the session.
C12_RateLimitedRetried ==
  [][(upc = "sleeping" /\ LastSleep.kind = "flood")
       => /\ wait_time = LastSleep.secs
          /\ LastSleep.secs \in FloodWaits
          /\ upc' \in {"sleeping", "attempt"}]_vars

\* C13: a network error or timeout whose attempt number is at most the
\* configured maximum is answered with a backoff sleep and a new attempt;
\* the first one beyond the maximum fails the session, and nothing follows.
C13_AbortBeyondMaximum ==
  [][/\ (TransientStep /\ error' # "StatusError") =>
          IF retry_count' <= max_retries
          THEN upc' = "sleeping" /\ slept'[Len(slept')].kind = "backoff"
          ELSE upc' = "failed" /\ slept' = slept
     /\ (upc = "sleeping" /\ LastSleep.kind = "backoff") => upc' \in {"sleeping", "attempt"}
     /\ upc = "failed" => upc' = "failed" /\ slept' = slept]_vars

\* C14: with base 60, ceiling 1800 and the default retry budget, a session
\* that met three network errors in a row (and no rate limit) has slept 60,
\* 120 and 240 seconds, in that order, and goes on to a new attempt.
C14_ThreeTransients ==
  (/\ loop \in LiteralLoops
   /\ max_retries = DEFAULT_MAX_RETRIES
   /\ floods = 0
   /\ retry_count = 3)
    => /\ upc \in {"sleeping", "attempt", "done"}
       /\ Len(slept) = 3
       /\ slept[1].secs = 60 /\ slept[2].secs = 120 /\ slept[3].secs = 240

\* the backoff sleeps among the first i sleeps
BackoffsUpTo(i) == {j \in 1..i : slept[j].kind = "backoff"}

\* C15: rate-limit waits do not advance the backoff attempt number: in the
\* loops of base 60 the k-th backoff of a session lasts min(1800, 60*2^(k-1))
\* whatever number of rate-limit waits came before it (15 s, then 60 s).
C15_FloodsDoNotAdvanceBackoff ==
  loop \in LiteralLoops =>
    \A i \in Backoffs :
      slept[i].secs = Min(1800, 60 * Pow2(Cardinality(BackoffsUpTo(i)) - 1))

\* C20: a session ends with a result returned or with an error raised; it
\* never leaves the retry loop without either.
C20_TerminalOutcome == upc \in {"attempt", "sleeping", "done", "failed"}

-----------------------------------------------------------------------------
(* Properties of the chunked upload (upload_audio).                        *)

\* the attempt is inside the chunk loop with chunks left to send
InChunkLoop ==
  /\ upc = "attempt"
  /\ position # Closed
  /\ current_chunk < Len(chunk_hashes)

\* the bytes of the chunks acknowledged so far, in order
RECURSIVE Reassembled(_)
Reassembled(a) ==
  IF a = <<>> THEN <<>>
  ELSE Reassembled(SubSeq(a, 1, Len(a) - 1)) \o a[Len(a)].chunk

\* the number of chunks of n bytes in chunks of c bytes: ceil(n / c)
CeilDiv(n, c) == CHOOSE k \in 0..n : k * c >= n /\ (k = 0 \/ (k - 1) * c < n)

\* C16: an attempt that follows a wait resumes at the saved cursor: the next
\* chunk is read at offset current_chunk * chunk_size, not at offset zero.
C16_ResumesAtCursor ==
  InChunkLoop => position = current_chunk * chunk_size

\* C17: round trip: when a session has succeeded, the acknowledged chunks put
\* together in order are the bytes of the file, each chunk acknowledged for
\* the offset where the previous one ended, from 0 to the file's length.
C17_RoundTrip ==
  (loop = ChunkedLoop /\ upc = "done" /\ Len(file) >= 1) =>
     /\ Reassembled(acked) = file
     /\ acked[1].offset = 0
     /\ \A i \in 1..(Len(acked) - 1) :
          acked[i + 1].offset = acked[i].offset + Len(acked[i].chunk)
     /\ acked[Len(acked)].offset + Len(acked[Len(acked)].chunk) = Len(file)

\* a session that succeeded after a backoff taken with one chunk acknowledged
C17_Witness ==
  /\ loop = ChunkedLoop
  /\ upc = "done"
  /\ Len(file) = 3
  /\ chunk_size = 1
  /\ \E i \in 1..Len(slept) : slept[i].kind = "backoff" /\ slept[i].at = 1
  /\ Len(acked) = 3

\* C18: a file of N bytes goes out in ceil(N/c) chunks of c bytes, the last
\* one possibly shorter, and after success the bytes-transferred counter is N.
C18_ChunkCount ==
  (loop = ChunkedLoop /\ upc # "init") =>
    LET n == CeilDiv(Len(file), chunk_size) IN
      /\ Len(chunk_hashes) = n
      /\ Len(acked) = current_chunk
      /\ current_chunk <= n
      /\ \A i \in 1..Len(acked) :
           Len(acked[i].chunk) =
             IF i < n THEN chunk_size ELSE Len(file) - (n - 1) * chunk_size
      /\ upc = "done" => Len(acked) = n /\ uploaded_size = Len(file)

\* Scenario A: 25 units of 4 MiB in chunks of 2 units: 13 chunks, 12 full and
\* one of a single unit, 25 units transferred
C18_Witness ==
  /\ upc = "done"
  /\ Len(file) = 25
  /\ chunk_size = 2
  /\ Len(acked) = 13
  /\ \A i \in 1..12 : Len(acked[i].chunk) = 2
  /\ Len(acked[13].chunk) = 1
  /\ uploaded_size = 25
  /\ 25 * 4194304 = 104857600

\* C19: a chunk that does not match its digest fails the session at once: the
\* chunk is not sent, the retry counter stays, nothing is slept, and no
\* attempt follows in that session (a new call of upload_audio apart).
C19_CorruptionFatal ==
  [][/\ (/\ InChunkLoop
         /\ Read(file, position, chunk_size) # <<>>
         /\ Digest(Read(file, position, chunk_size)) # chunk_hashes[current_chunk + 1])
        => /\ upc' = "failed"
           /\ acked' = acked
           /\ current_chunk' = current_chunk
           /\ retry_count' = retry_count
           /\ slept' = slept
     /\ upc = "failed" => \/ upc' = "failed" /\ acked' = acked /\ slept' = slept
                          \/ upc' = "init" /\ again'
     /\ error' = "ValueError" => error = "ValueError" \/ upc' = "failed"]_vars

\* a session failed by the digest check, with chunks acknowledged before
C19_Witness ==
  /\ loop = ChunkedLoop
  /\ upc = "failed"
  /\ file = <<0, 1>>
  /\ chunk_size = 1
  /\ current_chunk = 1
  /\ retry_count = 1
  /\ max_retries = 2
  /\ Len(slept) = 1
  /\ error = "ValueError"

-----------------------------------------------------------------------------
(* Properties of the watcher: marker events, shutdown, restart.            *)

\* the observer thread takes the event at the head of the queue
Dispatching == pc = "idle" /\ queue # <<>> /\ queue' = Tail(queue)

\* the event at the head of the queue reports the creation of a file whose
\* name ends in .ready
MarkerEventNext ==
  /\ Head(queue).type = "created"
  /\ ~Head(queue).is_directory
  /\ Head(queue).src_path[Len(Head(queue).src_path)] = ".ready"

\* the path of the event at the head of the queue without its last part
MarkedPath == SubSeq(Head(queue).src_path, 1, Len(Head(queue).src_path) - 1)

\* C24: a Created event for <media>.ready enters processing of <media>
\* directly, without stabilization, when <media> is a media file that exists
\* and is not in the ledger; otherwise nothing is dispatched and the ledger
\* stays as it is.
C24_MarkerEntry ==
  [][(Dispatching /\ MarkerEventNext) =>
       IF MarkedPath \in MediaPaths \cap fs /\ MarkedPath \notin processing
       THEN /\ pc' = "sleep2"
            /\ target' = MarkedPath
            /\ processing' = processing \cup {MarkedPath}
            /\ initial_size' = initial_size
            /\ fs' = fs
       ELSE /\ pc' = "idle"
            /\ processing' = processing
            /\ sessions' = sessions
            /\ fs' = fs]_vars

\* processing of a.m4b entered from the event of its marker, which somebody
\* else created
C24_Witness ==
  /\ pc = "sleep2"
  /\ event.src_path = ReadyMarker(A_M4B)
  /\ target = A_M4B
  /\ processing = {A_M4B}
  /\ initial_size = 0
  /\ sessions[A_M4B] = 0

\* C25: an event delivered after a shutdown signal is not accepted: no
\* stabilization starts, no marker is created, nothing is dispatched.
C25_NoEventAfterShutdown ==
  [][(Dispatching /\ Head(queue).late) =>
       pc' = "idle" /\ fs' = fs /\ processing' = processing]_vars

\* C26: the process does not exit while an upload session is outstanding.
C26_SessionsJoinedBeforeExit == proc = "exited" => pc # "sending"

\* C27: an audiobook that is in the watched directory with its marker when
\* the watcher starts is processed without any new filesystem event: the
\* watcher is not left idle, with nothing queued, while no session for the
\* file has been started.
C27_ProcessedAfterRestart ==
  (/\ ext = 0
   /\ pc = "idle"
   /\ queue = <<>>
   /\ A_M4B \in fs
   /\ ReadyMarker(A_M4B) \in fs)
    => sessions[A_M4B] >= 1

\* C28: a write event for an audiobook that has no marker yet starts a
\* stabilization cycle.
C28_WriteRetriggers ==
  [][(/\ Dispatching
      /\ Head(queue).type = "modified"
      /\ Head(queue).src_path \in MediaPaths \cap fs
      /\ ReadyMarker(Head(queue).src_path) \notin fs)
       => pc' = "settle"]_vars

\* C29: when the metadata of a file cannot be read the attempt ends as a
\* failure before anything is sent: no session is started, no upload is made,
\* and the finally clause takes the path out of the ledger.
C29_MetadataFailureAborts ==
  [][/\ (Has(ops', "metadata_failed") /\ ~Has(ops, "metadata_failed"))
        => /\ pc = "sleep2"
           /\ pc' = "finally"
           /\ ops' = <<"add", "metadata_failed", "error">>
           /\ sessions' = sessions
           /\ uploads' = uploads
           /\ sent_size' = sent_size
     /\ (Has(ops, "metadata_failed") /\ pc' # pc)
        => /\ pc' = "idle"
           /\ target \notin processing'
           /\ sessions' = sessions
           /\ uploads' = uploads]_vars

\* the attempt for a.m4b failed on its metadata; file and marker are there
C29_Witness ==
  /\ pc = "finally"
  /\ ops = <<"add", "metadata_failed", "error">>
  /\ target = A_M4B
  /\ A_M4B \in fs
  /\ ReadyMarker(A_M4B) \in fs
  /\ sessions[A_M4B] = 0

\* ---------------------------------------------------------------------
\* Properties of the uploader: validation and status messages
\* ---------------------------------------------------------------------

\* a status message of one of these kinds was tried in this step
Tried(kinds) ==
  /\ Len(notices') > Len(notices)
  /\ \E i \in (Len(notices) + 1)..Len(notices') : notices'[i].kind \in kinds

\* a status message of one of these kinds was tried in this step and raised
TriedAndRaised(kinds) ==
  /\ Len(notices') > Len(notices)
  /\ \E i \in (Len(notices) + 1)..Len(notices') :
       notices'[i].kind \in kinds /\ ~notices'[i].ok

\* C21: upload_audio rejects a source that does not exist or has no bytes
\* before its loop: the session is failed with a validation error, without a
\* retry, a sleep, an open file or an acknowledged chunk.
C21_RejectsMissingOrEmpty ==
  (loop = ChunkedLoop /\ upc # "init" /\ (~exists \/ Len(file) = 0)) =>
    /\ upc = "failed"
    /\ error = "FileNotFoundError"
    /\ retry_count = 0
    /\ slept = <<>>
    /\ acked = <<>>
    /\ position = Closed
    /\ \A i \in 1..Len(notices) : notices[i].kind = "failure"

\* C22: a rate-limit or retry message that raises is ignored: the handler
\* still sleeps, the session does not fail, and the attempt that follows the
\* sleep comes.
C22_StatusBestEffort ==
  [][TriedAndRaised({"flood", "retry"}) =>
       /\ upc' = "sleeping"
       /\ Len(slept') = Len(slept) + 1
       /\ error' = error]_vars

\* C23: every rate-limit wait, every backoff sleep and every step into the
\* failed or exhausted end of a session comes with a status message of its kind.
C23_TransitionsNotify ==
  [][/\ FloodStep => Tried({"flood"})
     /\ (Len(slept') = Len(slept) + 1 /\ slept'[Len(slept')].kind = "backoff")
          => Tried({"retry"})
     /\ (upc' \in {"failed", "exhausted"} /\ upc' # upc) => Tried({"failure"})]_vars

\* ---------------------------------------------------------------------
\* Properties of the progress reports
\* ---------------------------------------------------------------------

\* C30: every acknowledged chunk is reported to the progress path, two
\* emissions that follow one another are at least one second apart, and a
\* report that the rate limit suppresses leaves the timestamp as it is.
C30_OncePerSecond ==
  [][/\ \A i \in 1..(Len(emitted') - 1) :
          emitted'[i + 1].at - emitted'[i].at >= SECOND
     /\ (current' # current /\ emitted' = emitted)
          => last_progress_update' = last_progress_update]_vars

\* ---------------------------------------------------------------------
\* Properties of the chunk loop: cursor, counter, file handle
\* ---------------------------------------------------------------------

\* C31: in upload_audio the cursor and the bytes-transferred counter move
\* only in a step in which upload_chunk acknowledged the chunk, by one chunk
\* and by that chunk's length; every other step, a failed send included,
\* leaves both as they are; the cursor never goes back and the counter stays
\* between 0 and the size of the file.
C31_AdvanceOnAck ==
  [][(loop = ChunkedLoop /\ upc \in {"attempt", "sleeping"}) =>
       /\ IF Len(acked') = Len(acked) + 1
          THEN /\ current_chunk' = current_chunk + 1
               /\ uploaded_size' = uploaded_size + Len(acked'[Len(acked')].chunk)
          ELSE /\ current_chunk' = current_chunk
               /\ uploaded_size' = uploaded_size
               /\ acked' = acked
       /\ current_chunk' >= current_chunk
       /\ 0 <= uploaded_size'
       /\ uploaded_size' <= Len(file')]_vars

\* a chunk was acknowledged, a send failed and left cursor and counter, and a
\* later attempt acknowledged the rest
C31_Witness ==
  /\ loop = ChunkedLoop
  /\ Len(file) = 2
  /\ chunk_size = 1
  /\ current_chunk = 2
  /\ uploaded_size = 2
  /\ Len(acked) = 2
  /\ \E i \in 1..Len(slept) : slept[i].at = 1

\* the session has ended in success or in failure
Ended == upc \in {"done", "failed"}

\* C32: a session that ended in success or failure sends nothing, sleeps
\* no more and keeps its outcome; the only step from there is a new call of
\* upload_audio, whose loop starts with cursor 0, no bytes sent, retry
\* counter 0 and no file open.
C32_EndedIsAbsorbing ==
  [][loop = ChunkedLoop =>
       /\ Ended =>
            \/ upc' = upc /\ acked' = acked /\ slept' = slept /\ position' = position
            \/ upc' = "init" /\ acked' = <<>> /\ slept' = <<>> /\ again'
       /\ (upc = "init" /\ upc' = "attempt") =>
            /\ current_chunk' = 0
            /\ uploaded_size' = 0
            /\ retry_count' = 0
            /\ position' = Closed
            /\ Len(chunk_hashes') = CeilDiv(Len(file'), chunk_size')]_vars

\* a first session has ended and the second call for the file is in its
\* loop with a fresh state
C32_Witness ==
  /\ loop = ChunkedLoop
  /\ again
  /\ upc = "attempt"
  /\ Len(file) = 2
  /\ chunk_size = 1
  /\ max_retries = 2
  /\ current_chunk = 0
  /\ retry_count = 0
  /\ acked = <<>>
  /\ position = Closed

\* ---------------------------------------------------------------------
\* Properties of the watcher: ledger, other events, failures
\* ---------------------------------------------------------------------

\* C33: the step in which the handler finds a path absent from the ledger
\* and goes on to process it is the step that inserts the path: nothing is
\* awaited and no other event is handled in between, for an audiobook's own
\* event and for its marker's event; and the ledger grows in no other step.
C33_CheckThenInsert ==
  [][/\ (pc \notin InFlight /\ pc' \in InFlight) =>
          /\ pc' = "sleep2"
          /\ target' \notin processing
          /\ processing' = processing \cup {target'}
          /\ target' = Subject(event'.src_path)
     /\ ~(processing' \subseteq processing) =>
          pc \in {"idle", "settle"} /\ pc' = "sleep2"]_vars

\* the marker's event has put the path into the ledger, after an earlier
\* attempt that came from the audiobook's own event
C33_Witness ==
  /\ pc = "sleep2"
  /\ event.src_path = ReadyMarker(A_M4B)
  /\ processing = {A_M4B}
  /\ ops = <<"add">>
  /\ sessions[A_M4B] = 1

\* C34: in upload_audio the file is open only inside an attempt: it is
\* closed during every backoff or rate-limit sleep and after the session has
\* ended, a chunk is read and acknowledged only from the handle the running
\* attempt opened, and the attempt after a sleep starts with no handle and
\* opens the file anew.
C34_HandleClosed ==
  [][loop = ChunkedLoop =>
       /\ upc' # "attempt" => position' = Closed
       /\ (upc = "sleeping" /\ upc' = "attempt") => position' = Closed
       /\ Len(acked') > Len(acked) => position # Closed /\ position' # Closed
       /\ (position = Closed /\ position' # Closed) => upc = "attempt" /\ position' = 0]_vars

\* the handle of an attempt that had sent a chunk is closed during the sleep
C34_Witness ==
  /\ loop = ChunkedLoop
  /\ upc = "sleeping"
  /\ position = Closed
  /\ Len(acked) = 1
  /\ Len(file) = 3
  /\ LastSleep.kind = "flood"
  /\ LastSleep.at = 1

\* ---------------------------------------------------------------------
\* Termination of a session
\* ---------------------------------------------------------------------

\* C35: with finitely many rate-limit answers a session ends in success or
\* in failure; with network errors only it makes at most max_retries
\* attempts; and a rate-limit answer by itself never ends the session: after
\* its sleep the next attempt comes.
C35_Termination ==
  /\ <>(upc \in {"done", "failed"})
  /\ [](floods = 0 => Len(slept) + 1 <= max_retries)
  /\ [][(upc = "sleeping" /\ floods = Len(slept) /\ upc' # "sleeping")
          => upc' = "attempt"]_vars

\* ---------------------------------------------------------------------
\* Properties of send_message
\* ---------------------------------------------------------------------

\* C36: send_message calls the transport at most max_retries times with
\* retry set and once without; it returns True exactly when a call
\* succeeded and False when every call it made ended in a TelegramError,
\* which it never passes on; after the k-th failed call it sleeps
\* min(60, 10 * k) seconds, and only when another call follows.
C36_SendMessage ==
  loop = MessageLoop =>
    /\ Len(sends) <= (IF retry THEN max_retries ELSE 1)
    /\ (~retry /\ upc \in {"done", "failed"}) => Len(sends) = 1
    /\ returned = "True" <=> \E i \in 1..Len(sends) : sends[i] = "ok"
    /\ returned = "False" <=>
         /\ upc = "failed"
         /\ \A i \in 1..Len(sends) : sends[i] = "TelegramError"
    /\ upc \in {"done", "failed"} => returned # "none" \/ error = "Exception"
    /\ upc # "exhausted"
    /\ error \in {"none", "Exception"}
    /\ \A k \in 1..Len(slept) : slept[k].secs = Min(60, 10 * k) /\ slept[k].attempt = k
    /\ Len(slept) = IF upc \in {"done", "failed"} THEN Len(sends) - 1 ELSE Len(sends)

\* seven calls failed, six sleeps of 10 to 60 seconds were made, none after
\* the last call, and False was returned
C36_Witness ==
  /\ loop = MessageLoop
  /\ retry
  /\ max_retries = 7
  /\ returned = "False"
  /\ Len(sends) = 7
  /\ Len(slept) = 6
  /\ slept[5].secs = 50
  /\ slept[6].secs = 60

\* the event that is dispatched next is none the handler acts on: a
\* directory, a path that is neither an audiobook nor a marker, or an event
\* that is no creation
IgnoredEventNext ==
  \/ Head(queue).type # "created"
  \/ Head(queue).is_directory
  \/ /\ ~LowerEndsWith(Head(queue).src_path, ".m4b")
     /\ ~LowerEndsWith(Head(queue).src_path, ".ready")

\* C37: the dispatch of a created event for a directory or for a path that
\* is neither an audiobook nor a marker, and of every modified or deleted
\* event, changes nothing: ledger, files, markers and processed area stay,
\* no session is started, the handler is idle again.
C37_OtherEventsIgnored ==
  [][(Dispatching /\ IgnoredEventNext) =>
       /\ pc' = "idle"
       /\ processing' = processing
       /\ fs' = fs
       /\ size' = size
       /\ archived' = archived
       /\ processedDir' = processedDir
       /\ sessions' = sessions
       /\ uploads' = uploads
       /\ ops' = ops]_vars

\* an audiobook was written to during its settle wait, and the modified
\* event of that write has been dispatched: no marker, no session
C37_Witness ==
  /\ pc = "idle"
  /\ queue = <<>>
  /\ ext = 2
  /\ fs = {A_M4B}
  /\ size[A_M4B] = 1500
  /\ sessions[A_M4B] = 0
  /\ processing = {}

\* C38: once a session for a path has failed, a further session for the
\* path is started only by the handling of an event that came from outside:
\* the created event of the marker the watcher wrote itself starts none.
C38_NoSessionFromOwnMarker ==
  [][\A p \in MediaPaths :
       (sessions'[p] = sessions[p] + 1 /\ sessions[p] >= 1 /\ uploads[p] = 0)
         => ~event.own]_vars

\* C39: when the processing of a path whose upload succeeded comes to its
\* end, the marker of the path is gone from the watched directory, whether
\* the file was moved or not (a removal that the filesystem refused apart).
C39_MarkerGoneAfterSuccess ==
  [][(/\ pc # "finally"
      /\ pc' = "finally"
      /\ Has(ops', "uploaded")
      /\ ~Has(ops', "unmark_failed"))
       => ReadyMarker(target') \notin fs']_vars

\* the created event of an audiobook is dispatched next, to a handler that
\* is not shutting down
MediaEventNext ==
  /\ Head(queue).type = "created"
  /\ ~Head(queue).is_directory
  /\ ~is_shutting_down
  /\ ~LowerEndsWith(Head(queue).src_path, ".ready")
  /\ LowerEndsWith(Head(queue).src_path, ".m4b")

\* C40: when os.path.getsize fails because the file is gone, at the first
\* sample or at the one after the settle wait, the cycle ends there: no
\* marker is made, no session starts, the ledger and the directory stay as
\* they are, and the handler is idle for the next event.
C40_SamplingFailureEndsCycle ==
  [][/\ (Dispatching /\ MediaEventNext /\ Head(queue).src_path \notin fs) =>
          /\ pc' = "idle"
          /\ fs' = fs
          /\ processing' = processing
          /\ sessions' = sessions
     /\ (pc = "settle" /\ pc' # "settle" /\ event.src_path \notin fs) =>
          /\ pc' = "idle"
          /\ fs' = fs
          /\ processing' = processing
          /\ sessions' = sessions
          /\ queue' = queue]_vars

\* the audiobook was deleted before its stabilization was over: no marker,
\* no session, and the events that came later have all been handled
C40_Witness ==
  /\ pc = "idle"
  /\ queue = <<>>
  /\ ext = 3
  /\ dropped = {A_M4B}
  /\ fs = {NOTES_TXT}
  /\ archived = {}
  /\ processing = {}
  /\ sessions[A_M4B] = 0
====
